---------------------------- MODULE Spec2Model ----------------------------
(***************************************************************************)
(* pretix-multisafepay: the payment provider of                            *)
(* src/pretix_multisafepay/payment.py as a state machine.                  *)
(*                                                                         *)
(*   Spec          the lifecycle of one OrderPayment and its OrderRefund:  *)
(*                 execute_payment, the webhook callback, execute_refund,  *)
(*                 shred_payment_info                                      *)
(*   SpecRegistry  the payment method classes evaluated under the          *)
(*                 per-event settings                                      *)
(*   SpecCodec     _decimal_to_int and _amount_to_decimal                  *)
(*   SpecInitBody  _get_payment_page_init_body and the refund support of   *)
(*                 every provider class                                    *)
(***************************************************************************)
EXTENDS Integers, Sequences, FiniteSets, TLC

VARIABLES
    settings,   \* SettingsSandbox("payment", "multisafepay", event): key -> bool
    probe,      \* what the host last read from a provider class (<<>>: nothing yet)
    currency,   \* event.currency
    codec,      \* the amount codec's input and results
    method,     \* the provider class of the payment (its `method` attribute)
    payment,    \* the OrderPayment: state, amount, info
    log,        \* order.log_action entries, oldest first
    refund,     \* the OrderRefund of the last execute_refund (<<>>: none yet)
    calls,      \* the gateway endpoints the last handler posted to, in order
    last,       \* the last handler that ran, its input and how it ended
    envelope    \* the body of the last PaymentPage/Initialize request (<<>>: none)

vars == <<settings, probe, currency, codec, method, payment, log, refund,
          calls, last, envelope>>

registryVars  == <<settings, probe>>
codecVars     == <<currency, codec>>
lifecycleVars == <<method, payment, log, refund, calls, last, envelope>>

(***************************************************************************)
(* Bounds of the model.                                                    *)
(***************************************************************************)
\* Per-method enable flags (method_<key>) that are set at the same time.
MaxSimpleOn == 1
\* Largest coefficient of a Decimal amount given to the codec.
MaxCoef == 24
\* Largest number of fractional digits of a Decimal amount given to the codec.
MaxExp == 3
\* Largest payment amount, in minor units, of the lifecycle.
MaxAmount == 2
\* Most audit log entries kept for an order.
MaxLog == 3

(***************************************************************************)
(* Decimal and float arithmetic.                                           *)
(*                                                                         *)
(* A Decimal is [coef, exp]: the number coef / 10^exp, coef >= 0.          *)
(***************************************************************************)
RECURSIVE Pow10(_)
Pow10(n) == IF n = 0 THEN 1 ELSE 10 * Pow10(n - 1)

Dec(coef, exp) == [coef |-> coef, exp |-> exp]

\* Decimal.__eq__: numeric equality, whatever the exponents.
DecEq(a, b) == a.coef * Pow10(b.exp) = b.coef * Pow10(a.exp)

\* Whether a Decimal has at most p fractional digits once trailing zeros go.
Representable(a, p) ==
    IF a.exp <= p THEN TRUE ELSE a.coef % Pow10(a.exp - p) = 0

\* django.conf.settings.CURRENCY_PLACES of the host: the currencies whose
\* number of decimal places is configured.  "EUR" is not in it.
CURRENCY_PLACES == [JPY |-> 0, BHD |-> 3]

Currencies == {"EUR", "JPY", "BHD"}

\* The default of CURRENCY_PLACES.get(currency, 2).
DefaultPlaces == 2

places_of(cur) ==
    IF cur \in DOMAIN CURRENCY_PLACES THEN CURRENCY_PLACES[cur] ELSE DefaultPlaces

\* int(amount * 10**places): the product is exact in Decimal, int() truncates.
_decimal_to_int_fixed_factor(amount, cur) ==
    (amount.coef * Pow10(DefaultPlaces)) \div Pow10(amount.exp)

_decimal_to_int(amount, cur) ==
    (amount.coef * Pow10(places_of(cur))) \div Pow10(amount.exp)

\* Bits of the significand of a Python float (IEEE 754 binary64).
MantissaBits == 53

\* floor(log2(c / d)) for c >= 1, d >= 1.
RECURSIVE ExpUp(_, _)
ExpUp(c, d) == IF 2 * d <= c THEN 1 + ExpUp(c, 2 * d) ELSE 0

RECURSIVE ExpDown(_, _)
ExpDown(c, d) == IF 2 * c >= d THEN 1 ELSE 1 + ExpDown(2 * c, d)

Log2Floor(c, d) == IF c >= d THEN ExpUp(c, d) ELSE 0 - ExpDown(c, d)

\* 2^k mod m, k >= 0.
RECURSIVE ModPow2(_, _)
ModPow2(k, m) == IF k = 0 THEN 1 % m ELSE (2 * ModPow2(k - 1, m)) % m

\* Whether 2^k > n, for k >= 0 and n >= 0, without computing 2^k.
RECURSIVE Pow2Exceeds(_, _)
Pow2Exceeds(k, n) ==
    IF n = 0 THEN TRUE
    ELSE IF k = 0 THEN FALSE
    ELSE Pow2Exceeds(k - 1, n \div 2)

RECURSIVE Pow2(_)
Pow2(k) == IF k = 0 THEN 1 ELSE 2 * Pow2(k - 1)

\* float(cents) / d, correctly rounded (nearest, ties to even) to a binary64:
\* the float is (num + rho / 2^k) / den exactly.  With 2^e <= cents/d < 2^(e+1)
\* the significand is m = round(cents * 2^k / d) for k = MantissaBits - 1 - e,
\* and rho = m * d - cents * 2^k is found from cents * 2^k modulo d (and modulo
\* 2d for the parity of the quotient, which decides a tie).
FloatDiv(cents, d) ==
    IF cents = 0 THEN [num |-> 0, den |-> d, rho |-> 0, k |-> 0]
    ELSE LET k  == (MantissaBits - 1) - Log2Floor(cents, d)
             r2 == ((cents % (2 * d)) * ModPow2(k, 2 * d)) % (2 * d)
             r  == r2 % d
             odd == (r2 - r) \div d = 1
             up == IF 2 * r = d THEN odd ELSE 2 * r > d
         IN [num |-> cents, den |-> d,
             rho |-> IF r = 0 THEN 0 ELSE IF up THEN d - r ELSE 0 - r,
             k |-> k]

Abs(n) == IF n < 0 THEN 0 - n ELSE n

\* pretix.base.decimal.round_decimal(dec, currency):
\* Decimal(dec).quantize(Decimal('1') / 10 ** places, ROUND_HALF_UP), for the
\* float f = (num + rho / 2^k) / 10^places.  Decimal(f) is exact; the result
\* has `places` fractional digits and the coefficient
\* floor(num + rho / 2^k + 1/2).
round_decimal(f, cur) ==
    LET adj == IF Pow2Exceeds(f.k, 2 * Abs(f.rho)) THEN 0
               ELSE (2 * f.rho + Pow2(f.k)) \div (2 * Pow2(f.k))
    IN Dec(f.num + adj, places_of(cur))

_amount_to_decimal(cents, cur) ==
    round_decimal(FloatDiv(cents, Pow10(places_of(cur))), cur)

(***************************************************************************)
(* The payment method classes.                                             *)
(***************************************************************************)
SimpleMethods == {"bancontact", "eprzelewy", "eps", "giropay", "ideal",
                  "paydirekt", "paypal", "sepadebit", "sofort", "wero"}

Methods == {"creditcard"} \cup SimpleMethods

\* The class attributes of MultisafepayMethod.
BaseAttrs == [refunds_allowed |-> TRUE, cancel_flow |-> TRUE,
              payment_methods |-> <<>>, payment_method_wallets |-> <<>>]

\* What each subclass sets in its own body.
ClassAttrs ==
    [creditcard |-> [public_name |-> "Credit card"],
     bancontact |-> [public_name |-> "Bancontact",
                     payment_methods |-> <<"BANCONTACT">>],
     eprzelewy  |-> [public_name |-> "ePrzelewy",
                     payment_methods |-> <<"EPRZELEWY">>],
     eps        |-> [public_name |-> "eps", refunds_allowed |-> FALSE,
                     cancel_flow |-> FALSE, payment_methods |-> <<"EPS">>],
     giropay    |-> [public_name |-> "giropay", refunds_allowed |-> FALSE,
                     cancel_flow |-> FALSE, payment_methods |-> <<"GIROPAY">>],
     ideal      |-> [public_name |-> "iDEAL", refunds_allowed |-> FALSE,
                     cancel_flow |-> FALSE, payment_methods |-> <<"IDEAL">>],
     paydirekt  |-> [public_name |-> "paydirekt",
                     payment_methods |-> <<"PAYDIREKT">>],
     paypal     |-> [public_name |-> "PayPal", cancel_flow |-> FALSE,
                     payment_methods |-> <<"PAYPAL">>],
     sepadebit  |-> [public_name |-> "SEPA Direct Debit",
                     refunds_allowed |-> FALSE,
                     payment_methods |-> <<"DIRECTDEBIT">>],
     sofort     |-> [public_name |-> "Sofort", refunds_allowed |-> FALSE,
                     cancel_flow |-> FALSE, payment_methods |-> <<"SOFORT">>],
     wero       |-> [public_name |-> "Wero", refunds_allowed |-> TRUE,
                     cancel_flow |-> FALSE, payment_methods |-> <<"WERO">>]]

\* Attribute lookup: the subclass body first, then MultisafepayMethod.
Attr(m, name) ==
    IF name \in DOMAIN ClassAttrs[m] THEN ClassAttrs[m][name] ELSE BaseAttrs[name]

\* The classes that list RetiredMethodMixin before MultisafepayMethod.
RetiredMethods == {"giropay", "sofort"}

\* refunds_allowed as MultisafepayMethod sets it, the subclass body unread.
refunds_allowed_base(m) == BaseAttrs.refunds_allowed

refunds_allowed(m) == Attr(m, "refunds_allowed")
cancel_flow(m) == Attr(m, "cancel_flow")

(***************************************************************************)
(* Settings.                                                               *)
(***************************************************************************)
\* The card brand flags MultisafepayCC.payment_methods reads, in its order,
\* with the code each appends.
CardBrands == << [key |-> "method_visa",       code |-> "VISA"],
                 [key |-> "method_diners",     code |-> "DINERS"],
                 [key |-> "method_jcb",        code |-> "JCB"],
                 [key |-> "method_mastercard", code |-> "MASTERCARD"],
                 [key |-> "method_amex",       code |-> "AMEX"] >>

\* The wallet flags MultisafepayCC reads, in its order, with the code
\* payment_method_wallets appends and the name public_name appends.
CardWallets == << [key |-> "method_applepay",  code |-> "APPLEPAY",
                   name |-> "Apple Pay"],
                  [key |-> "method_googlepay", code |-> "GOOGLEPAY",
                   name |-> "Google Pay"] >>

CardKeys == {CardBrands[i].key : i \in DOMAIN CardBrands}
                \cup {CardWallets[i].key : i \in DOMAIN CardWallets}

MethodKey(m) == "method_" \o m

SimpleKeys == {MethodKey(m) : m \in SimpleMethods}

SettingKeys == {"_enabled"} \cup CardKeys \cup SimpleKeys

\* settings.get(key, as_type=bool).
Get(s, key) == IF key \in DOMAIN s THEN s[key] ELSE FALSE

\* The flags in `items` that are set, each mapped to its `field`, in order.
RECURSIVE Selected(_, _, _)
Selected(s, items, field) ==
    IF items = <<>> THEN <<>>
    ELSE (IF Get(s, Head(items).key) THEN <<Head(items)[field]>> ELSE <<>>)
            \o Selected(s, Tail(items), field)

\* ", ".join(parts)
RECURSIVE Join(_)
Join(parts) ==
    IF parts = <<>> THEN ""
    ELSE IF Len(parts) = 1 THEN parts[1]
    ELSE parts[1] \o ", " \o Join(Tail(parts))

\* payment_methods with the wallet codes appended to the brand codes.
payment_methods_with_wallets(m, s) ==
    IF m = "creditcard"
    THEN Selected(s, CardBrands, "code") \o Selected(s, CardWallets, "code")
    ELSE Attr(m, "payment_methods")

payment_methods(m, s) ==
    IF m = "creditcard" THEN Selected(s, CardBrands, "code")
    ELSE Attr(m, "payment_methods")

payment_method_wallets(m, s) ==
    IF m = "creditcard" THEN Selected(s, CardWallets, "code")
    ELSE Attr(m, "payment_method_wallets")

public_name(m, s) ==
    IF m = "creditcard"
    THEN Join(<<Attr(m, "public_name")>> \o Selected(s, CardWallets, "name"))
    ELSE Attr(m, "public_name")

\* The truth value of `self.settings.get("_enabled") and ...`.
is_enabled(m, s) ==
    IF m = "creditcard"
    THEN Get(s, "_enabled") /\ payment_methods(m, s) # <<>>
    ELSE Get(s, "_enabled") /\ Get(s, MethodKey(m))

payment_refund_supported(m) == refunds_allowed(m)
payment_partial_refund_supported(m) == refunds_allowed(m)

\* is_allowed with the mixin missing from the method resolution order.
is_allowed_unmixed(m, base) == base

\* is_allowed(request, total): RetiredMethodMixin's, where the class has the
\* mixin; else BasePaymentProvider's, whose verdict is `base`.
is_allowed(m, base) == IF m \in RetiredMethods THEN FALSE ELSE base

\* order_change_allowed(order): likewise.
order_change_allowed(m, base) == IF m \in RetiredMethods THEN FALSE ELSE base

(***************************************************************************)
(* Idle values: what a specification leaves alone.                         *)
(***************************************************************************)
DefaultSettings == [k \in SettingKeys |-> FALSE]

IdleCodec == [amount |-> Dec(0, 0), stage |-> "idle", cents |-> 0,
              back |-> Dec(0, 0)]

RegistryIdle == settings = DefaultSettings /\ probe = <<>>

CodecIdle == currency = "EUR" /\ codec = IdleCodec

(***************************************************************************)
(* SpecRegistry: the host reads the provider classes under the settings.   *)
(***************************************************************************)
\* The settings an event can hold: any card and global flags, and at most
\* MaxSimpleOn of the per-method flags.
AllSettings ==
    {[k \in SettingKeys |-> k \in on] :
        on \in {c \cup sm :
                   c \in SUBSET ({"_enabled"} \cup CardKeys),
                   sm \in {x \in SUBSET SimpleKeys : Cardinality(x) <= MaxSimpleOn}}}

\* The host lists a provider: its properties under the current settings.
Describe(m) ==
    /\ probe = <<>>
    /\ probe' = << [op |-> "describe", method |-> m,
                    is_enabled |-> is_enabled(m, settings),
                    payment_methods |-> payment_methods(m, settings),
                    payment_method_wallets |-> payment_method_wallets(m, settings),
                    public_name |-> public_name(m, settings),
                    payment_refund_supported |-> payment_refund_supported(m),
                    payment_partial_refund_supported |->
                        payment_partial_refund_supported(m)] >>
    /\ UNCHANGED <<settings, codecVars, lifecycleVars>>

\* The host asks whether the method may be selected at checkout.
IsAllowed(m, base) ==
    /\ probe = <<>>
    /\ probe' = << [op |-> "is_allowed", method |-> m, base |-> base,
                    value |-> is_allowed(m, base)] >>
    /\ UNCHANGED <<settings, codecVars, lifecycleVars>>

\* The host asks whether an order may be changed to the method.
OrderChangeAllowed(m, base) ==
    /\ probe = <<>>
    /\ probe' = << [op |-> "order_change_allowed", method |-> m, base |-> base,
                    value |-> order_change_allowed(m, base)] >>
    /\ UNCHANGED <<settings, codecVars, lifecycleVars>>

(***************************************************************************)
(* SpecCodec: an amount goes to minor units and back.                      *)
(***************************************************************************)
Amounts == {Dec(c, e) : c \in 0..MaxCoef, e \in 0..MaxExp}

DecimalToInt ==
    /\ codec.stage = "input"
    /\ codec' = [codec EXCEPT !.stage = "int",
                              !.cents = _decimal_to_int(codec.amount, currency)]
    /\ UNCHANGED <<currency, registryVars, lifecycleVars>>

AmountToDecimal ==
    /\ codec.stage = "int"
    /\ codec' = [codec EXCEPT !.stage = "decimal",
                              !.back = _amount_to_decimal(codec.cents, currency)]
    /\ UNCHANGED <<currency, registryVars, lifecycleVars>>

(***************************************************************************)
(* Gateway documents and responses.                                        *)
(*                                                                         *)
(* A JSON object is a function from its keys.  A body that is not JSON is  *)
(* the function [text |-> ...].  A response is [status, body]; status 0    *)
(* stands for a request that raised a RequestException before any answer.  *)
(***************************************************************************)
EmptyDoc == <<>>

Restrict(f, keys) == [k \in keys |-> f[k]]

Parseable(body) == "text" \notin DOMAIN body

NotJson == [text |-> "<html>Bad Gateway</html>"]

TransportError == [status |-> 0, body |-> [text |-> "Read timed out"]]

IsTransportError(r) == r.status = 0

\* Response.raise_for_status(): HTTPError for a 4xx or 5xx status.
raise_for_status(r) == r.status >= 400 /\ r.status < 600

\* {"error": True, "detail": ...}
ErrorDoc(text) == [error |-> TRUE, detail |-> text]

\* try: req.json()  except Exception: {"error": True, "detail": req.text}
JsonOrErrorDoc(r) == IF Parseable(r.body) THEN r.body ELSE ErrorDoc(r.body.text)

FullInitializeBody ==
    [RedirectUrl |-> "https://gateway/pay", Id |-> "T1", CaptureId |-> "C1",
     details |-> [card |-> "4111", holder |-> "Jo"]]

\* What the gateway may answer a PaymentPage/Initialize with.
InitializeBodies ==
    {Restrict(FullInitializeBody, {"RedirectUrl"} \cup opt) :
        opt \in SUBSET {"Id", "CaptureId", "details"}}

InitializeResponses ==
    {[status |-> 200, body |-> b] : b \in InitializeBodies}
        \cup {[status |-> 200, body |-> NotJson],
              [status |-> 400, body |-> [ErrorName |-> "VALIDATION_FAILED",
                                         ErrorMessage |-> "Request validation failed"]],
              [status |-> 502, body |-> NotJson],
              TransportError}

\* The ErrorName values after which a Cancel falls through to the regular flow.
BenignCancelErrors == {"ACTION_NOT_SUPPORTED", "TRANSACTION_ALREADY_CAPTURED",
                       "TRANSACTION_IN_WRONG_STATE"}

CancelResponses ==
    {[status |-> 402, body |-> [ErrorName |-> n, ErrorMessage |-> "Cancel refused"]] :
        n \in BenignCancelErrors \cup {"PERMISSION_DENIED"}}
        \cup {[status |-> 200, body |-> [TransactionId |-> "T1"]],
              [status |-> 202, body |-> [TransactionId |-> "T1"]],
              [status |-> 502, body |-> NotJson],
              TransportError}

RefundResponses ==
    {[status |-> 200, body |-> [Transaction |-> [Id |-> "R1", Status |-> s]]] :
        s \in {"CAPTURED", "AUTHORIZED", "PENDING"}}
        \cup {[status |-> 402, body |-> [ErrorName |-> "TRANSACTION_DECLINED",
                                         ProcessorMessage |-> "Insufficient funds"]],
              TransportError}

CaptureResponses ==
    {[status |-> 200, body |-> [Status |-> "CAPTURED", CaptureId |-> "C2"]],
     [status |-> 200, body |-> [Status |-> "PENDING"]],
     [status |-> 402, body |-> [ErrorName |-> "TRANSACTION_DECLINED",
                                ErrorMessage |-> "Capture refused"]],
     TransportError}

\* The gateway endpoints.
InitializeEndpoint == "Payment/v1/PaymentPage/Initialize"
CancelEndpoint     == "Payment/v1/Transaction/Cancel"
RefundEndpoint     == "Payment/v1/Transaction/Refund"
CaptureEndpoint    == "Payment/v1/Transaction/Capture"

Call(ep, r) == [ep |-> ep, resp |-> r]

\* The messages of the PaymentExceptions.
CommunicationMessage == "We had trouble communicating with Multisafepay."
NotCapturedMessage ==
    "The payment has not been captured successfully and can therefore not be refunded."
GatewayMessage(error) == "Multisafepay returned the following error: " \o error

(***************************************************************************)
(* The payment and its order.                                              *)
(***************************************************************************)
\* OrderPayment.state.
PaymentStates == {"created", "pending", "confirmed", "failed", "canceled", "refunded"}

\* The states a callback may still move a payment out of.
OpenStates == {"created", "pending"}

\* order.locale, as its characters.
Locales == { <<"n", "l", "-", "i", "n", "f", "o", "r", "m", "a", "l">>,
             <<"d", "e">>, <<"e", "n">> }

Min(a, b) == IF a < b THEN a ELSE b

\* get_locale(language): language[:2] if the gateway knows it, else "en".
get_locale(language) ==
    LET two == SubSeq(language, 1, Min(2, Len(language)))
    IN IF two \in { <<"n", "l">>, <<"e", "n">> } THEN two ELSE <<"e", "n">>

\* self.event.slug.upper()
EventSlugUpper == "DEMO"

\* hashlib.sha1(...).hexdigest(), uninterpreted.
Sha1(text) == "sha1(" \o text \o ")"

NewPayment(amount, locale) ==
    [local_id |-> 1, state |-> "created", amount |-> amount, info |-> <<>>,
     order |-> [code |-> "ABC12", locale |-> locale, secret |-> "k9x"]]

\* payment.info_data: json.loads(info) if info else {}.
info_data(obj) == IF obj.info = <<>> THEN EmptyDoc ELSE obj.info[1]

\* _get_payment_page_init_body(payment), without the request header (a fresh
\* uuid4 RequestId each time) and the terminal id.
_get_payment_page_init_body(m, s, cur, pay) ==
    [Payment |->
        [Amount |-> [Value |-> ToString(_decimal_to_int(pay.amount, cur)),
                     CurrencyCode |-> cur],
         OrderId |-> EventSlugUpper \o "-" \o pay.order.code \o "-P-"
                        \o ToString(pay.local_id),
         Description |-> "Order " \o EventSlugUpper \o "-" \o pay.order.code,
         PayerNote |-> EventSlugUpper \o "-" \o pay.order.code],
     PaymentMethods |-> payment_methods(m, s),
     Wallets |-> payment_method_wallets(m, s),
     Payer |-> [LanguageCode |-> get_locale(pay.order.locale)],
     ReturnUrl |-> [order |-> pay.order.code, payment |-> pay.local_id,
                    hash |-> Sha1(pay.order.secret)],
     Notification |-> [SuccessNotifyUrl |-> [payment |-> pay.local_id,
                                             action |-> "success"],
                       FailNotifyUrl |-> [payment |-> pay.local_id,
                                          action |-> "fail"]]]

\* The record of the handler that ran last.
Ran(op, kind, pre, logged, raised) ==
    [op |-> op, kind |-> kind, pre |-> pre, logged |-> logged, raised |-> raised]

NothingRan == Ran("none", "", "", 0, "")

(***************************************************************************)
(* execute_payment                                                         *)
(***************************************************************************)
\* fail() writing the canceled state instead of the failed one.
fail_cancels(pay, info) ==
    [pay EXCEPT !.state = "canceled", !.info = IF info = <<>> THEN @ ELSE info]

\* OrderPayment.fail(info=..., log_data=...) of the host: the payment is
\* failed, a given info replaces the stored one, the object is saved.
fail(pay, info) ==
    [pay EXCEPT !.state = "failed", !.info = IF info = <<>> THEN @ ELSE info]

PaymentFailedEntry == "pretix.event.order.payment.failed"

\* The payment, the log entries and the exception execute_payment ends with,
\* for the gateway's answer r.
ExecutePaymentOutcome(pay, r) ==
    IF IsTransportError(r)
    THEN \* except RequestException
         [payment |-> fail(pay, <<ErrorDoc(r.body.text)>>),
          logs |-> <<PaymentFailedEntry>>, raised |-> CommunicationMessage]
    ELSE IF raise_for_status(r)
    THEN \* except HTTPError
         [payment |-> fail([pay EXCEPT !.info = <<JsonOrErrorDoc(r)>>], <<>>),
          logs |-> <<PaymentFailedEntry>>, raised |-> CommunicationMessage]
    ELSE IF ~Parseable(r.body)
    THEN \* data = req.json() raises outside the try
         [payment |-> pay, logs |-> <<>>, raised |-> "JSONDecodeError"]
    ELSE [payment |-> [pay EXCEPT !.info = <<r.body>>, !.state = "created"],
          logs |-> <<>>, raised |-> ""]

\* The host's checkout and pay views start a payment only while it is in the
\* state created.
execute_payment(r) ==
    LET out == ExecutePaymentOutcome(payment, r)
    IN /\ payment.state = "created"
       /\ Len(log) + Len(out.logs) <= MaxLog
       /\ envelope' = << _get_payment_page_init_body(method, settings, currency,
                                                     payment) >>
       /\ calls' = << Call(InitializeEndpoint, r) >>
       /\ payment' = out.payment
       /\ log' = log \o out.logs
       /\ last' = Ran("execute_payment", "", payment.state, Len(out.logs), out.raised)
       /\ UNCHANGED <<method, refund, registryVars, codecVars>>

(***************************************************************************)
(* The webhook callback.                                                   *)
(***************************************************************************)
CallbackKinds == {"success", "fail"}

CallbackTarget(kind) == IF kind = "success" THEN "confirmed" ELSE "failed"

CallbackEntry(kind) ==
    IF kind = "success" THEN "pretix_multisafepay.event.paid" ELSE PaymentFailedEntry

\* handleCallback with the last event winning, whatever the state.
handleCallback_last_wins(kind) ==
    LET applies == payment.state # CallbackTarget(kind)
    IN /\ envelope # <<>>
       /\ Len(log) + (IF applies THEN 1 ELSE 0) <= MaxLog
       /\ payment' = [payment EXCEPT !.state = CallbackTarget(kind)]
       /\ log' = IF applies THEN Append(log, CallbackEntry(kind)) ELSE log
       /\ last' = Ran("callback", kind, payment.state, IF applies THEN 1 ELSE 0, "")
       /\ calls' = <<>>
       /\ UNCHANGED <<method, refund, envelope, registryVars, codecVars>>

\* handleCallback logging every delivery, applied or not.
handleCallback_logs_every_delivery(kind) ==
    LET applies == payment.state \in OpenStates
    IN /\ envelope # <<>>
       /\ Len(log) + 1 <= MaxLog
       /\ payment' = IF applies THEN [payment EXCEPT !.state = CallbackTarget(kind)]
                     ELSE payment
       /\ log' = Append(log, CallbackEntry(kind))
       /\ last' = Ran("callback", kind, payment.state, 1, "")
       /\ calls' = <<>>
       /\ UNCHANGED <<method, refund, envelope, registryVars, codecVars>>

\* handleCallback(payment, eventKind): the notification the gateway sends to
\* SuccessNotifyUrl or FailNotifyUrl.  An event is applied, and logged, only
\* to a payment that is not yet in a terminal state.
handleCallback(kind) ==
    LET applies == payment.state \in OpenStates
    IN /\ envelope # <<>>
       /\ Len(log) + (IF applies THEN 1 ELSE 0) <= MaxLog
       /\ payment' = IF applies THEN [payment EXCEPT !.state = CallbackTarget(kind)]
                     ELSE payment
       /\ log' = IF applies THEN Append(log, CallbackEntry(kind)) ELSE log
       /\ last' = Ran("callback", kind, payment.state, IF applies THEN 1 ELSE 0, "")
       /\ calls' = <<>>
       /\ UNCHANGED <<method, refund, envelope, registryVars, codecVars>>

(***************************************************************************)
(* shred_payment_info                                                      *)
(***************************************************************************)
\* The redaction glyph (the full block U+2588 in the source), as one character.
Glyph == "#"

\* shred_payment_info emptying `details` instead of redacting its values.
shred_payment_info_drops_keys(info) ==
    IF info = <<>> THEN info
    ELSE LET d  == info[1]
             d1 == IF "details" \in DOMAIN d
                   THEN [d EXCEPT !["details"] = <<>>] ELSE d
         IN << ("_shredded" :> TRUE) @@ d1 >>

\* The info shred_payment_info(obj) leaves in obj.
shred_payment_info(info) ==
    IF info = <<>> THEN info
    ELSE LET d  == info[1]
             d1 == IF "details" \in DOMAIN d
                   THEN [d EXCEPT !["details"] = [k \in DOMAIN d.details |-> Glyph]]
                   ELSE d
         IN << ("_shredded" :> TRUE) @@ d1 >>

\* What the shredder finds: no snapshot, a fresh one, or a shredded one.
SnapshotStatus(info) ==
    IF info = <<>> THEN "none"
    ELSE IF "_shredded" \in DOMAIN info[1] THEN "shredded" ELSE "fresh"

Shred ==
    /\ payment' = [payment EXCEPT !.info = shred_payment_info(payment.info)]
    /\ last' = Ran("shred", "", SnapshotStatus(payment.info), 0, "")
    /\ calls' = <<>>
    /\ UNCHANGED <<method, log, refund, envelope, registryVars, codecVars>>

(***************************************************************************)
(* execute_refund (the commented-out implementation of lines 312-473).     *)
(***************************************************************************)
NewRefund(amount) ==
    [local_id |-> 1, state |-> "created", amount |-> amount, info |-> <<>>]

RefundFailedEntry == "pretix.event.order.refund.failed"
RefundDoneEntry   == "pretix.event.order.refund.done"
PaidEntry         == "pretix_multisafepay.event.paid"

\* How a run of execute_refund ends: the refund and the payment as saved,
\* the gateway calls made, the log entries written, the exception raised
\* ("" when it returns).
Outcome(rf, pay, cs, logs, raised) ==
    [refund |-> rf, payment |-> pay, calls |-> cs, logs |-> logs, raised |-> raised]

\* done() saving the refund's snapshot into the payment as well.
done_overwrites_payment_info(rf, pay, cs, logs) ==
    Outcome([rf EXCEPT !.state = "done"],
            IF DecEq(rf.amount, pay.amount)
            THEN [pay EXCEPT !.state = "refunded", !.info = rf.info]
            ELSE [pay EXCEPT !.info = rf.info],
            cs, Append(logs, RefundDoneEntry), "")

\* OrderRefund.done() of the host: the refund is done and logged, and a
\* payment refunded in full becomes refunded.
done(rf, pay, cs, logs) ==
    Outcome([rf EXCEPT !.state = "done"],
            IF DecEq(rf.amount, pay.amount) THEN [pay EXCEPT !.state = "refunded"]
            ELSE pay,
            cs, Append(logs, RefundDoneEntry), "")

\* The message of the PaymentException after an HTTPError.
RefundErrorMessage(doc) ==
    IF "ProcessorMessage" \in DOMAIN doc THEN GatewayMessage(doc.ProcessorMessage)
    ELSE IF "ErrorMessage" \in DOMAIN doc THEN GatewayMessage(doc.ErrorMessage)
    ELSE CommunicationMessage

\* except HTTPError, for the response r that raised it.
HTTPErrorOutcome(rf, pay, cs, r) ==
    LET doc == JsonOrErrorDoc(r)
    IN Outcome([rf EXCEPT !.state = "failed", !.info = <<doc>>], pay, cs,
               <<RefundFailedEntry>>, RefundErrorMessage(doc))

\* except RequestException, for the request that got no answer.
RequestExceptionOutcome(rf, pay, cs, r) ==
    Outcome([rf EXCEPT !.state = "failed", !.info = <<ErrorDoc(r.body.text)>>],
            pay, cs, <<RefundFailedEntry>>, CommunicationMessage)

\* The follow-up capture of a refund the gateway only authorized.
CaptureFlow(rf, pay, cs0, captureR) ==
    LET cs == Append(cs0, Call(CaptureEndpoint, captureR))
    IN IF IsTransportError(captureR) THEN RequestExceptionOutcome(rf, pay, cs, captureR)
       ELSE IF raise_for_status(captureR) THEN HTTPErrorOutcome(rf, pay, cs, captureR)
       ELSE LET data == captureR.body
            IN IF data.Status = "CAPTURED"
               THEN LET trans == info_data(rf)
                        t2 == [trans EXCEPT !.Transaction =
                                  ("CaptureId" :> data.CaptureId)
                                      @@ [@ EXCEPT !.Status = "CAPTURED"]]
                    IN done([rf EXCEPT !.info = <<t2>>], pay, cs, <<PaidEntry>>)
               ELSE Outcome(rf, pay, cs, <<>>, "")

\* The regular flow posting the Refund before it looks for the CaptureId.
RegularFlow_posts_first(rf, pay, cs0, refundR, captureR) ==
    LET cs == Append(cs0, Call(RefundEndpoint, refundR))
    IN IF "CaptureId" \notin DOMAIN info_data(pay)
       THEN Outcome(rf, pay, cs, <<>>, NotCapturedMessage)
       ELSE IF IsTransportError(refundR)
       THEN RequestExceptionOutcome(rf, pay, cs, refundR)
       ELSE IF raise_for_status(refundR)
       THEN HTTPErrorOutcome(rf, pay, cs, refundR)
       ELSE LET rf2 == [rf EXCEPT !.info = <<refundR.body>>]
                status == refundR.body.Transaction.Status
            IN IF status = "CAPTURED" THEN done(rf2, pay, cs, <<>>)
               ELSE IF status = "AUTHORIZED"
               THEN CaptureFlow(rf2, pay, cs, captureR)
               ELSE Outcome(rf2, pay, cs, <<>>, "")

\* The regular flow: Transaction/Refund against the capture.
RegularFlow(rf, pay, cs0, refundR, captureR) ==
    IF "CaptureId" \notin DOMAIN info_data(pay)
    THEN Outcome(rf, pay, cs0, <<>>, NotCapturedMessage)
    ELSE LET cs == Append(cs0, Call(RefundEndpoint, refundR))
         IN IF IsTransportError(refundR)
            THEN RequestExceptionOutcome(rf, pay, cs, refundR)
            ELSE IF raise_for_status(refundR)
            THEN HTTPErrorOutcome(rf, pay, cs, refundR)
            ELSE LET rf2 == [rf EXCEPT !.info = <<refundR.body>>]
                     status == refundR.body.Transaction.Status
                 IN IF status = "CAPTURED" THEN done(rf2, pay, cs, <<>>)
                    ELSE IF status = "AUTHORIZED"
                    THEN CaptureFlow(rf2, pay, cs, captureR)
                    ELSE Outcome(rf2, pay, cs, <<>>, "")

\* if self.cancel_flow and refund.amount == refund.payment.amount
CancelFirst(m, rf, pay) == cancel_flow(m) /\ DecEq(rf.amount, pay.amount)

\* The Cancel's success tested against the wrong status code.
CancelSucceeded_wrong_status(r) == r.status = 201

\* if req.status_code == 200
CancelSucceeded(r) == r.status = 200

\* The else branch of the Cancel without the look at ErrorName: any error the
\* gateway put into JSON falls through.
CancelFallsThrough_any_error(r) ==
    IF ~Parseable(r.body) THEN ~raise_for_status(r) ELSE TRUE

\* The else branch of the Cancel: whether the handler goes on to the regular
\* flow (the alternative is raise_for_status() raising HTTPError).
CancelFallsThrough(r) ==
    IF ~Parseable(r.body) THEN ~raise_for_status(r)
    ELSE IF "ErrorName" \in DOMAIN r.body /\ r.body.ErrorName \in BenignCancelErrors
    THEN TRUE
    ELSE ~raise_for_status(r)

ExecuteRefundOutcome(m, rf, pay, cancelR, refundR, captureR) ==
    IF CancelFirst(m, rf, pay)
    THEN IF "Id" \notin DOMAIN info_data(pay)
         THEN Outcome(rf, pay, <<>>, <<>>, NotCapturedMessage)
         ELSE LET cs == << Call(CancelEndpoint, cancelR) >>
              IN IF IsTransportError(cancelR)
                 THEN RequestExceptionOutcome(rf, pay, cs, cancelR)
                 ELSE IF CancelSucceeded(cancelR)
                 THEN done([rf EXCEPT !.info = <<cancelR.body>>], pay, cs, <<>>)
                 ELSE IF CancelFallsThrough(cancelR)
                 THEN RegularFlow(rf, pay, cs, refundR, captureR)
                 ELSE HTTPErrorOutcome(rf, pay, cs, cancelR)
    ELSE RegularFlow(rf, pay, <<>>, refundR, captureR)

\* The host creates an OrderRefund for a confirmed payment of a provider that
\* supports it, and has the provider execute it.
execute_refund(amount, cancelR, refundR, captureR) ==
    LET out == ExecuteRefundOutcome(method, NewRefund(amount), payment,
                                    cancelR, refundR, captureR)
    IN /\ payment.state = "confirmed"
       /\ IF DecEq(amount, payment.amount) THEN payment_refund_supported(method)
          ELSE payment_partial_refund_supported(method)
       /\ Len(log) + Len(out.logs) <= MaxLog
       /\ refund' = << out.refund >>
       /\ payment' = out.payment
       /\ calls' = out.calls
       /\ log' = log \o out.logs
       /\ last' = Ran("execute_refund", "", payment.state, Len(out.logs), out.raised)
       /\ UNCHANGED <<method, envelope, registryVars, codecVars>>

(***************************************************************************)
(* Spec: the lifecycle of one payment.                                     *)
(***************************************************************************)
\* The provider classes register_payment_provider hands to the host (the
\* settings holder aside): two that cancel first, one that refunds without
\* cancelling.
LifecycleMethods == {"creditcard", "bancontact", "wero"}

EnabledSettings == [k \in SettingKeys |-> TRUE]

LifecycleIdle ==
    /\ method = "creditcard"
    /\ payment = NewPayment(Dec(1, 0), <<"e", "n">>)
    /\ log = <<>>
    /\ refund = <<>>
    /\ calls = <<>>
    /\ last = NothingRan
    /\ envelope = <<>>

\* Amounts of the lifecycle: 0.01 .. MaxAmount / 100.
LifecycleAmounts == {Dec(a, 2) : a \in 1..MaxAmount}

Init ==
    /\ settings = EnabledSettings
    /\ probe = <<>>
    /\ CodecIdle
    /\ method \in LifecycleMethods
    /\ payment \in {NewPayment(a, <<"e", "n">>) : a \in LifecycleAmounts}
    /\ log = <<>>
    /\ refund = <<>>
    /\ calls = <<>>
    /\ last = NothingRan
    /\ envelope = <<>>

\* The answers the gateway can give to the calls a refund of `amount` makes.
\* A call that is not made has no answer to choose: TransportError stands in.
CancelAnswers(amount) ==
    IF CancelFirst(method, NewRefund(amount), payment)
          /\ "Id" \in DOMAIN info_data(payment)
    THEN CancelResponses ELSE {TransportError}

RefundAnswers(amount, cancelR) ==
    IF "CaptureId" \in DOMAIN info_data(payment)
          /\ (CancelAnswers(amount) = {TransportError}
                \/ (~IsTransportError(cancelR) /\ ~CancelSucceeded(cancelR)
                       /\ CancelFallsThrough(cancelR)))
    THEN RefundResponses ELSE {TransportError}

CaptureAnswers(refundR) ==
    IF ~IsTransportError(refundR) /\ ~raise_for_status(refundR)
          /\ refundR.body.Transaction.Status = "AUTHORIZED"
    THEN CaptureResponses ELSE {TransportError}

Next ==
    \/ \E r \in InitializeResponses : execute_payment(r)
    \/ \E kind \in CallbackKinds : handleCallback(kind)
    \/ \E amount \in {a \in LifecycleAmounts : a.coef <= payment.amount.coef} :
          \E cancelR \in CancelAnswers(amount) :
             \E refundR \in RefundAnswers(amount, cancelR) :
                \E captureR \in CaptureAnswers(refundR) :
                   execute_refund(amount, cancelR, refundR, captureR)
    \/ Shred

Spec == Init /\ [][Next]_vars

(***************************************************************************)
(* SpecRegistry                                                            *)
(***************************************************************************)
InitRegistry ==
    /\ settings \in AllSettings
    /\ probe = <<>>
    /\ CodecIdle
    /\ LifecycleIdle

NextRegistry ==
    \/ \E m \in Methods : Describe(m)
    \/ \E m \in Methods, base \in BOOLEAN : IsAllowed(m, base)
    \/ \E m \in Methods, base \in BOOLEAN : OrderChangeAllowed(m, base)

SpecRegistry == InitRegistry /\ [][NextRegistry]_vars

(***************************************************************************)
(* SpecCodec                                                               *)
(***************************************************************************)
InitCodec ==
    /\ RegistryIdle
    /\ LifecycleIdle
    /\ currency \in Currencies
    /\ codec \in {[IdleCodec EXCEPT !.amount = a, !.stage = "input"] : a \in Amounts}

NextCodec == DecimalToInt \/ AmountToDecimal

SpecCodec == InitCodec /\ [][NextCodec]_vars

(***************************************************************************)
(* SpecInitBody: the Initialize request of every provider class.           *)
(***************************************************************************)
InitBodySettings ==
    {[k \in SettingKeys |-> k \in on] :
        on \in { {}, {"_enabled", "method_visa", "method_eps"},
                 {"_enabled", "method_applepay"}, SettingKeys }}

BuildInitBody ==
    /\ envelope' = << _get_payment_page_init_body(method, settings, currency,
                                                  payment) >>
    /\ UNCHANGED <<method, payment, log, refund, calls, last, registryVars,
                   codecVars>>

\* The host asks whether the payment can be refunded, in full or in part.
RefundSupported ==
    /\ probe = <<>>
    /\ probe' = << [op |-> "refund_supported", method |-> method,
                    payment_refund_supported |-> payment_refund_supported(method),
                    payment_partial_refund_supported |->
                        payment_partial_refund_supported(method)] >>
    /\ UNCHANGED <<settings, codecVars, lifecycleVars>>

InitInitBody ==
    /\ settings \in InitBodySettings
    /\ probe = <<>>
    /\ currency \in Currencies
    /\ codec = IdleCodec
    /\ method \in Methods
    /\ payment \in {NewPayment(Dec(a, 0), l) : a \in 1..MaxAmount, l \in Locales}
    /\ log = <<>>
    /\ refund = <<>>
    /\ calls = <<>>
    /\ last = NothingRan
    /\ envelope = <<>>

NextInitBody == BuildInitBody \/ RefundSupported

SpecInitBody == InitInitBody /\ [][NextInitBody]_vars

(***************************************************************************)
(* The claims.                                                             *)
(***************************************************************************)
TerminalStates == {"confirmed", "failed"}

\* C1: once the payment is confirmed or failed, a callback of the other kind
\* leaves its state as it is.
TerminalStateMonotonic ==
    [][ (/\ last'.op = "callback"
         /\ payment.state \in TerminalStates
         /\ CallbackTarget(last'.kind) # payment.state)
            => payment'.state = payment.state ]_vars

\* A fail notification was delivered to a confirmed payment, which stayed
\* confirmed.
StaleCallbackIgnored ==
    /\ last.op = "callback"
    /\ last.kind = "fail"
    /\ last.pre = "confirmed"
    /\ payment.state = "confirmed"

TheRefund == refund[1]

EndpointsCalled == [i \in DOMAIN calls |-> calls[i].ep]

CallsTo(ep) == Cardinality({i \in DOMAIN calls : calls[i].ep = ep})

\* C3: a refund of the full amount by a provider with cancel_flow, on a
\* payment whose snapshot has the transaction Id, posts to Cancel first; when
\* Cancel answers 200 that is the only call and the refund is done.
CancelRouting ==
    (/\ last.op = "execute_refund"
     /\ method \in {"creditcard", "bancontact", "eprzelewy", "paydirekt", "sepadebit"}
     /\ TheRefund.amount.coef = payment.amount.coef
     /\ TheRefund.amount.exp = payment.amount.exp
     /\ "Id" \in DOMAIN info_data(payment))
        => /\ calls # <<>>
           /\ calls[1].ep = CancelEndpoint
           /\ (calls[1].resp.status = 200
                 => /\ EndpointsCalled = <<CancelEndpoint>>
                    /\ TheRefund.state = "done")

\* A full refund was cancelled at the gateway and is done.
CancelledRefundDone ==
    /\ last.op = "execute_refund"
    /\ method = "creditcard"
    /\ EndpointsCalled = <<CancelEndpoint>>
    /\ calls[1].resp.status = 200
    /\ TheRefund.state = "done"
    /\ payment.state = "refunded"

\* The Cancel of the last refund was answered with an HTTP error.
CancelRefused ==
    /\ last.op = "execute_refund"
    /\ calls # <<>>
    /\ calls[1].ep = CancelEndpoint
    /\ calls[1].resp.status >= 400

\* The error code of an answer, "" when it has none.
ErrorNameOf(r) ==
    IF Parseable(r.body) /\ "ErrorName" \in DOMAIN r.body THEN r.body.ErrorName ELSE ""

FallbackCodes == {"TRANSACTION_ALREADY_CAPTURED", "ACTION_NOT_SUPPORTED",
                  "TRANSACTION_IN_WRONG_STATE"}

\* C4 as claimed: after a Cancel refused with one of the three codes exactly
\* one Refund call follows; after any other error the refund is failed and
\* no Refund call is made.
CancelFallbackAlwaysRefunds ==
    CancelRefused =>
        IF ErrorNameOf(calls[1].resp) \in FallbackCodes
        THEN /\ Len(calls) >= 2
             /\ calls[2].ep = RefundEndpoint
             /\ CallsTo(RefundEndpoint) = 1
        ELSE /\ TheRefund.state = "failed"
             /\ CallsTo(RefundEndpoint) = 0

\* C4, amended: after a Cancel refused with one of the three codes the refund
\* is not failed by that answer.  When the payment's snapshot has a CaptureId
\* exactly one Refund call follows, and the refund is done when that call
\* answers CAPTURED; when the snapshot has none no further call is made and
\* execute_refund raises the not-captured error, the refund still not failed.
\* After any other error the refund is failed and no Refund call is made.
CancelFallback ==
    CancelRefused =>
        IF ErrorNameOf(calls[1].resp) \in FallbackCodes
        THEN IF "CaptureId" \in DOMAIN info_data(payment)
             THEN /\ Len(calls) >= 2
                  /\ calls[2].ep = RefundEndpoint
                  /\ CallsTo(RefundEndpoint) = 1
                  /\ (/\ calls[2].resp.status = 200
                      /\ calls[2].resp.body.Transaction.Status = "CAPTURED")
                        => TheRefund.state = "done"
             ELSE /\ Len(calls) = 1
                  /\ TheRefund.state = "created"
                  /\ last.raised = NotCapturedMessage
        ELSE /\ TheRefund.state = "failed"
             /\ Len(calls) = 1
             /\ last.raised # ""

\* A Cancel refused with TRANSACTION_ALREADY_CAPTURED was followed by the
\* Refund call, and the refund is done.
CancelFellThrough ==
    /\ CancelRefused
    /\ ErrorNameOf(calls[1].resp) = "TRANSACTION_ALREADY_CAPTURED"
    /\ EndpointsCalled = <<CancelEndpoint, RefundEndpoint>>
    /\ TheRefund.state = "done"

\* C5 as claimed: a simple method is enabled iff _enabled and its own flag
\* are set; the credit card is enabled iff _enabled and at least one brand
\* or wallet flag are set.
EnabledRule ==
    (probe # <<>> /\ probe[1].op = "describe") =>
        LET m == probe[1].method
        IN probe[1].is_enabled
              = IF m = "creditcard"
                THEN settings["_enabled"] /\ \E k \in CardKeys : settings[k]
                ELSE settings["_enabled"] /\ settings["method_" \o m]

\* The host listed the credit card with only Apple Pay switched on.
CardListedWithWalletOnly ==
    /\ probe # <<>>
    /\ probe[1].op = "describe"
    /\ probe[1].method = "creditcard"
    /\ settings["_enabled"]
    /\ {k \in CardKeys : settings[k]} = {"method_applepay"}

\* C6: an amount with at most p fractional digits, p the currency's places
\* (2 for a currency that has none configured), comes back from
\* _decimal_to_int and _amount_to_decimal as the same number; the minor units
\* are the amount times 10^p and the result is the minor units over 10^p.
AmountRoundTrip ==
    LET p == IF currency \in DOMAIN CURRENCY_PLACES THEN CURRENCY_PLACES[currency]
             ELSE 2
    IN (codec.stage = "decimal" /\ Representable(codec.amount, p))
          => /\ DecEq(codec.back, codec.amount)
             /\ codec.cents * Pow10(codec.amount.exp) = codec.amount.coef * Pow10(p)
             /\ codec.back.coef * Pow10(p) = codec.cents * Pow10(codec.back.exp)

\* 0.007 BHD went to 7 minor units and back.
RoundTripDone ==
    /\ codec.stage = "decimal"
    /\ currency = "BHD"
    /\ codec.amount = Dec(7, 3)
    /\ codec.cents = 7

\* C7: shredding a payment without a snapshot changes nothing; shredding a
\* snapshot leaves its keys, sets _shredded, keeps the keys of details and
\* sets each of their values to the glyph; shredding it again leaves the
\* same snapshot.
ShredIdempotent ==
    [][ last'.op = "shred" =>
          IF payment.info = <<>>
          THEN /\ payment' = payment
               /\ log' = log
               /\ last'.raised = ""
          ELSE LET before == payment.info[1]
                   after  == payment'.info[1]
               IN /\ payment'.info # <<>>
                  /\ last'.raised = ""
                  /\ DOMAIN after = DOMAIN before \cup {"_shredded"}
                  /\ after["_shredded"] = TRUE
                  /\ "details" \in DOMAIN before
                        => /\ DOMAIN after["details"] = DOMAIN before["details"]
                           /\ \A k \in DOMAIN after["details"] :
                                 after["details"][k] = Glyph
                  /\ \A k \in DOMAIN before \ {"details", "_shredded"} :
                        after[k] = before[k]
                  /\ (last'.pre = "shredded" => payment'.info = payment.info) ]_vars

\* A snapshot with details was shredded a second time.
ShreddedTwice ==
    /\ last.op = "shred"
    /\ last.pre = "shredded"
    /\ payment.info # <<>>
    /\ "details" \in DOMAIN payment.info[1]

\* C8: whatever the settings and whatever the host's own checks say,
\* is_allowed and order_change_allowed of Sofort and giropay are false.
RetiredNeverSelectable ==
    (/\ probe # <<>>
     /\ probe[1].op \in {"is_allowed", "order_change_allowed"}
     /\ probe[1].method \in {"sofort", "giropay"})
        => probe[1].value = FALSE

\* Sofort was asked for at checkout with its flag and the global flag set and
\* the host's own checks passing.
RetiredAskedWhileEnabled ==
    /\ probe # <<>>
    /\ probe[1].op = "is_allowed"
    /\ probe[1].method = "sofort"
    /\ probe[1].base
    /\ settings["_enabled"]
    /\ settings["method_sofort"]

\* The entries of `table` (code, or name, by flag) whose flag is set, in order.
RECURSIVE FlaggedOf(_)
FlaggedOf(table) ==
    IF table = <<>> THEN <<>>
    ELSE (IF settings[Head(table)[1]] THEN <<Head(table)[2]>> ELSE <<>>)
            \o FlaggedOf(Tail(table))

\* C9: the credit card's payment_methods are the brand codes whose flag is
\* set, its payment_method_wallets the wallet codes whose flag is set, and its
\* public_name is "Credit card" followed by the names of the wallets set.
CardCodesFollowFlags ==
    (probe # <<>> /\ probe[1].op = "describe" /\ probe[1].method = "creditcard")
        => /\ probe[1].payment_methods
                = FlaggedOf(<< <<"method_visa", "VISA">>, <<"method_diners", "DINERS">>,
                               <<"method_jcb", "JCB">>,
                               <<"method_mastercard", "MASTERCARD">>,
                               <<"method_amex", "AMEX">> >>)
           /\ probe[1].payment_method_wallets
                = FlaggedOf(<< <<"method_applepay", "APPLEPAY">>,
                               <<"method_googlepay", "GOOGLEPAY">> >>)
           /\ probe[1].public_name
                = "Credit card"
                     \o (IF settings["method_applepay"] THEN ", Apple Pay" ELSE "")
                     \o (IF settings["method_googlepay"] THEN ", Google Pay" ELSE "")

\* With Apple Pay alone the card has no brand codes, the wallet APPLEPAY and
\* the name "Credit card, Apple Pay".
ApplePayAlone ==
    /\ probe # <<>>
    /\ probe[1].op = "describe"
    /\ probe[1].method = "creditcard"
    /\ {k \in CardKeys : settings[k]} = {"method_applepay"}
    /\ probe[1].payment_methods = <<>>
    /\ probe[1].payment_method_wallets = <<"APPLEPAY">>
    /\ probe[1].public_name = "Credit card, Apple Pay"

\* C10: the Initialize body of an EPS payment has PaymentMethods = ["EPS"],
\* and EPS reports neither refunds nor partial refunds as supported.
EpsSelection ==
    method = "eps"
        => /\ envelope # <<>> => envelope[1].PaymentMethods = <<"EPS">>
           /\ (probe # <<>> /\ probe[1].op = "refund_supported")
                 => /\ ~probe[1].payment_refund_supported
                    /\ ~probe[1].payment_partial_refund_supported

\* An EPS payment's body was built and its refund support was asked for.
EpsBodyBuilt ==
    /\ method = "eps"
    /\ envelope # <<>>
    /\ probe # <<>>
    /\ probe[1].op = "refund_supported"

\* C11: every execute_payment posts once to Initialize and ends in one of
\* three ways.  A 2xx answer: its body is the snapshot, the state is created
\* and the handler returns.  Any other answer: the body (the synthetic error
\* document when it is not JSON) is the snapshot, the payment is failed and
\* the communication error is raised.  No answer: the synthetic error
\* document is the snapshot, the payment is failed and the same error is
\* raised.
ExecutePaymentOutcomes ==
    last.op = "execute_payment" =>
        /\ Len(calls) = 1
        /\ calls[1].ep = InitializeEndpoint
        /\ LET r == calls[1].resp
           IN IF r.status = 0
              THEN /\ payment.info = << [error |-> TRUE, detail |-> r.body.text] >>
                   /\ payment.state = "failed"
                   /\ last.raised = CommunicationMessage
              ELSE IF r.status >= 200 /\ r.status < 300
              THEN /\ payment.info = << r.body >>
                   /\ payment.state = "created"
                   /\ last.raised = ""
              ELSE /\ payment.info
                        = << IF "text" \in DOMAIN r.body
                             THEN [error |-> TRUE, detail |-> r.body.text]
                             ELSE r.body >>
                   /\ payment.state = "failed"
                   /\ last.raised = CommunicationMessage

\* C12: execute_payment never persists a new state of the payment with the
\* old snapshot, nor a new snapshot without setting the state (the state it
\* sets on success is created again); execute_refund returning normally has
\* persisted a snapshot of the refund exactly when it has moved the refund
\* out of created.
NoPartialApplication ==
    [][ /\ last'.op = "execute_payment"
            => /\ payment'.state # payment.state => payment'.info # payment.info
               /\ payment'.info # payment.info
                     => \/ payment'.state # payment.state
                        \/ (last'.raised = "" /\ payment'.state = "created")
        /\ (last'.op = "execute_refund" /\ last'.raised = "")
            => (refund'[1].info # <<>> <=> refund'[1].state # "created") ]_vars

\* Whether the last refund went to Cancel first: the class has cancel_flow
\* and the refund is of the full amount.
WentCancelFirst ==
    /\ method \in {"creditcard", "bancontact", "eprzelewy", "paydirekt", "sepadebit"}
    /\ TheRefund.amount.coef * Pow10(payment.amount.exp)
          = payment.amount.coef * Pow10(TheRefund.amount.exp)

\* C13 as claimed: a refund on a payment whose snapshot has no CaptureId
\* raises the not-captured error, and no gateway call was made.
CapabilityCheckFirst ==
    (last.op = "execute_refund" /\ "CaptureId" \notin DOMAIN info_data(payment))
        => /\ last.raised = NotCapturedMessage
           /\ calls = <<>>

\* C13, amended: on the regular path a snapshot without CaptureId raises the
\* not-captured error before any call; on the cancel-first path a snapshot
\* without Id does.  A cancel-first refund whose snapshot has the Id but no
\* CaptureId posts to Cancel, and to nothing else: the not-captured error
\* is raised only after Cancel was refused and never after it answered 200.
CapabilityCheck ==
    (last.op = "execute_refund" /\ "CaptureId" \notin DOMAIN info_data(payment))
        => IF WentCancelFirst /\ "Id" \in DOMAIN info_data(payment)
           THEN /\ EndpointsCalled = <<CancelEndpoint>>
                /\ last.raised = NotCapturedMessage
                      => calls[1].resp.status \notin {0, 200}
                /\ calls[1].resp.status = 200 => last.raised = ""
           ELSE /\ last.raised = NotCapturedMessage
                /\ calls = <<>>
                /\ TheRefund.state = "created"

\* A refund that does not cancel first was refused for the missing CaptureId
\* before any call.
RefundRefusedBeforeAnyCall ==
    /\ last.op = "execute_refund"
    /\ method = "wero"
    /\ payment.info # <<>>
    /\ "CaptureId" \notin DOMAIN info_data(payment)
    /\ last.raised = NotCapturedMessage
    /\ calls = <<>>

\* What shredding may change of a snapshot: the values under details and the
\* _shredded flag.
ShredChangedOnly(before, after) ==
    /\ DOMAIN after = DOMAIN before \cup {"_shredded"}
    /\ \A k \in DOMAIN before \ {"details", "_shredded"} : after[k] = before[k]
    /\ "details" \in DOMAIN before
          => DOMAIN after["details"] = DOMAIN before["details"]

RefundCompletion ==
    last.op = "execute_refund" =>
        /\ last.raised = "" => TheRefund.state \in {"done", "failed"}
        /\ \A i \in DOMAIN calls :
              (calls[i].ep = RefundEndpoint /\ calls[i].resp.status = 200)
                 => LET status == calls[i].resp.body.Transaction.Status
                    IN /\ status = "CAPTURED"
                             => /\ TheRefund.state = "done"
                                /\ CallsTo(CaptureEndpoint) = 0
                       /\ status = "AUTHORIZED"
                             => /\ CallsTo(CaptureEndpoint) = 1
                                /\ calls[Len(calls)].ep = CaptureEndpoint
                                /\ TheRefund.state = "done"
                                      => /\ calls[Len(calls)].resp.status = 200
                                         /\ calls[Len(calls)].resp.body.Status
                                               = "CAPTURED"

\* The edges of created -> pending -> (confirmed | failed | canceled) and
\* confirmed -> refunded.
ClaimedEdges ==
    { <<"created", "pending">>, <<"pending", "confirmed">>, <<"pending", "failed">>,
      <<"pending", "canceled">>, <<"confirmed", "refunded">> }

=============================================================================
